---- MODULE Spec2Model ----
(***************************************************************************)
(* Model of the Mage Arena image-to-flag converter.                        *)
(*                                                                         *)
(*   src/color_algorithms.py  the seven find_closest_colour_* quantizers   *)
(*   src/main.py              serialize_image_to_uv (encoder),             *)
(*                            create_uv_preview_image (decoder),           *)
(*                            process_image_with_algorithm and main        *)
(*                                                                         *)
(* Conventions.  An image is a function row -> column -> pixel, rows and   *)
(* columns counted from 0 as numpy does; a pixel is a triple of 8-bit      *)
(* channel values, Python's index k being index k+1 here.  Images read by  *)
(* cv.imread are in B,G,R order, the resized texture in R,G,B order.  A    *)
(* text (the stream, a pair, a number) is a sequence of one-character      *)
(* strings.                                                                *)
(***************************************************************************)
EXTENDS Integers, Sequences, FiniteSets, TLC

VARIABLES
    pc,               \* position of the caller / of main
    alg,              \* the algorithm name (args.alg, algorithm_name)
    lab_seed,         \* which deterministic RGB->LAB conversion the library applies
    source_image,     \* the source image, B,G,R (None before it is loaded)
    texture,          \* the reference texture, B,G,R (None before it is loaded)
    pixel_colour,     \* the pixel handed to a quantizer
    best,             \* the (best_u, best_v) a quantizer returned
    serialized_data,  \* the stream text
    preview_img,      \* the image create_uv_preview_image returned
    reserialized,     \* the stream obtained by encoding preview_img again
    err,              \* the exception raised, "none" when there is none
    fs,               \* the files that exist
    events,           \* the externally visible effects so far, in order
    todo,             \* main's "all" loop: the algorithm names still to process
    image_arg,        \* args.image, the path given on the command line
    pixel_hsv,        \* the pixel converted to H,S,V
    texture_hsv,      \* a palette cell converted to H,S,V
    h_dist            \* the hue term of the two, times 180

vars == <<pc, alg, lab_seed, source_image, texture, pixel_colour, best,
          serialized_data, preview_img, reserialized, err, fs, events, todo,
          image_arg, pixel_hsv, texture_hsv, h_dist>>

\* the variables of the hue computation, which the other operations leave alone
hue_vars == <<pixel_hsv, texture_hsv, h_dist>>

\* Python's None: a value that is no image, no text, no path and no cell
None == <<"None">>

(***************************************************************************)
(* Bounds of the model.  The program fixes the image at 100 x 66; the      *)
(* model runs the same loops on a smaller image.                           *)
(***************************************************************************)
width == 2

height == 2

\* the decoder is given streams of up to width*height + MaxExtra pairs
MaxExtra == 1

\* RGB->LAB conversions tried: lab_seed ranges over 0..LabVariants
LabVariants == 2

\* cv.norm returns a double; the model keeps NormScale-ths of it
NormScale == 64

\* the palette grid: texture_resized is 6 rows (v) by 7 columns (u)
PaletteRows == 6

PaletteCols == 7

(***************************************************************************)
(* 8-bit arithmetic and the library's colour conversions                   *)
(***************************************************************************)
Abs(x) == IF x < 0 THEN -x ELSE x

Min2(a, b) == IF a < b THEN a ELSE b

Max2(a, b) == IF a < b THEN b ELSE a

\* numpy uint8 array subtraction: element-wise, modulo 256
Sub8(a, b) == [k \in 1..3 |-> (a[k] - b[k]) % 256]

SumSq(d) == d[1] * d[1] + d[2] * d[2] + d[3] * d[3]

RECURSIVE ISqrtBetween(_, _, _)
\* the largest r in lo..hi with r*r <= x (lo*lo <= x < (hi+1)*(hi+1))
ISqrtBetween(x, lo, hi) ==
    IF lo >= hi THEN lo
    ELSE LET mid == (lo + hi + 1) \div 2
         IN IF mid * mid <= x THEN ISqrtBetween(x, mid, hi)
            ELSE ISqrtBetween(x, lo, mid - 1)

\* cv.norm(d), NORM_L2 of a 3-element uint8 array, in NormScale-ths (rounded down)
Norm(d) == ISqrtBetween(SumSq(d) * NormScale * NormScale, 0, 442 * NormScale)

\* a colour with its first and third channel exchanged (B,G,R <-> R,G,B)
SwapRB(c) == <<c[3], c[2], c[1]>>

\* cv.cvtColor(., COLOR_RGB2HSV) on one 8-bit pixel: H in 0..179, S and V in 0..255
\* (OpenCV's 8-bit fixed-point conversion, hsv_shift = 12)
RGB2HSV(c) ==
    LET r == c[1]
        g == c[2]
        b == c[3]
        v == Max2(r, Max2(g, b))
        vmin == Min2(r, Min2(g, b))
        diff == v - vmin
        sdiv == IF v = 0 THEN 0 ELSE (2 * 1044480 + v) \div (2 * v)
        hdiv == IF diff = 0 THEN 0 ELSE (2 * 122880 + diff) \div (2 * diff)
        s == (diff * sdiv + 2048) \div 4096
        h0 == IF v = r THEN g - b
              ELSE IF v = g THEN b - r + 2 * diff
              ELSE r - g + 4 * diff
        h1 == (h0 * hdiv + 2048) \div 4096
        h == IF h1 < 0 THEN h1 + 180 ELSE h1
    IN <<h, s, v>>

\* cv.cvtColor(., COLOR_RGB2LAB) on one 8-bit pixel.  The conversion is the image
\* library's; what the program relies on is that it is a fixed function of the
\* colour into three 8-bit values.  lab_seed selects one such function: 0 maps
\* every colour to the same triple, 1 is a luma / opponent-colour map, larger
\* seeds scramble it (distinct colours may or may not share a LAB value).
RGB2LAB(c) ==
    LET r == c[1]
        g == c[2]
        b == c[3]
    IN << (((2 * r + 5 * g + b) \div 8) * lab_seed) % 256,
          (128 * (IF lab_seed = 0 THEN 0 ELSE 1) + ((r - g) \div 2) * lab_seed) % 256,
          (128 * (IF lab_seed = 0 THEN 0 ELSE 1) + ((g - b) \div 2) * lab_seed) % 256 >>

\* the plain difference of two hues, without the way around the circle
HueDiffNoWrap(h1, h2) == Abs(h1 - h2)

\* min(abs(h1 - h2), 180 - abs(h1 - h2)), the numerator of the hue term
HueDiff(h1, h2) == Min2(Abs(h1 - h2), 180 - Abs(h1 - h2))

(***************************************************************************)
(* The distances the seven quantizers compare.  Each is the code's         *)
(* expression multiplied by a positive constant that clears its            *)
(* denominators, so that "<" on the model's integers is the code's "<".    *)
(***************************************************************************)
\* rgb: cv.norm(np.array(pixel_rgb) - np.array(texture_colour)), squared
\* (the square root is strictly increasing on these integers)
DistRgb(pixel_rgb, texture_colour) == SumSq(Sub8(pixel_rgb, texture_colour))

\* hsv: 0.5*h_dist + 0.25*s_dist + 0.25*v_dist, times 4*180*255
DistHsv(pixel_rgb, texture_colour) ==
    LET p == RGB2HSV(pixel_rgb)
        t == RGB2HSV(texture_colour)
    IN 510 * HueDiff(p[1], t[1]) + 180 * Abs(p[2] - t[2]) + 180 * Abs(p[3] - t[3])

\* lab: 0.5*l_diff/100 + 0.25*a_diff/255 + 0.25*b_diff/255, times 4*100*255
DistLab(pixel_rgb, texture_colour) ==
    LET p == RGB2LAB(pixel_rgb)
        t == RGB2LAB(texture_colour)
    IN 510 * Abs(p[1] - t[1]) + 100 * Abs(p[2] - t[2]) + 100 * Abs(p[3] - t[3])

\* perceptual: 0.6*lab_dist + 0.4*rgb_dist, times 5 (and NormScale);
\* pixel_lab - texture_lab is a uint8 subtraction too
DistPerceptual(pixel_rgb, texture_colour) ==
    3 * Norm(Sub8(RGB2LAB(pixel_rgb), RGB2LAB(texture_colour)))
    + 2 * Norm(Sub8(pixel_rgb, texture_colour))

\* weighted: rgb_dist + (sat_diff/255)*100, times 51 (and NormScale)
DistWeighted(pixel_rgb, texture_colour) ==
    51 * Norm(Sub8(pixel_rgb, texture_colour))
    + 20 * NormScale * Abs(RGB2HSV(pixel_rgb)[2] - RGB2HSV(texture_colour)[2])

\* simple: rgb_dist, doubled when the pixel is colourful and the cell is gray; squared
DistSimple(pixel_rgb, texture_colour) ==
    LET pixel_saturation == RGB2HSV(pixel_rgb)[2]
        texture_saturation == RGB2HSV(texture_colour)[2]
        rgb_dist2 == SumSq(Sub8(pixel_rgb, texture_colour))
    IN IF pixel_saturation > 30 /\ texture_saturation < 30
       THEN 4 * rgb_dist2
       ELSE rgb_dist2

\* perceptual_hsv: 0.6*hue_diff*255 + 0.25*sat_diff*255 + 0.15*val_diff*255, times 20
DistPerceptualHsv(pixel_rgb, texture_colour) ==
    LET p == RGB2HSV(pixel_rgb)
        t == RGB2HSV(texture_colour)
    IN 17 * HueDiff(p[1], t[1]) + 5 * Abs(p[2] - t[2]) + 3 * Abs(p[3] - t[3])

(***************************************************************************)
(* The quantizers: each scans the 42 cells, v outer and u inner, and keeps *)
(* the first cell whose distance is strictly below the best so far.        *)
(***************************************************************************)
\* min_dist = float('inf'); every distance is >= 0, so -1 is free to stand for it
Inf == -1

CloserOrEqual(dist, min_dist) == min_dist = Inf \/ dist <= min_dist

\* if dist < min_dist:
Closer(dist, min_dist) == min_dist = Inf \/ dist < min_dist

RECURSIVE ScanRow(_, _, _, _, _, _)
\* for u in range(7), from column u on, with the loop body's if
ScanRow(dist, v, u, min_dist, best_u, best_v) ==
    IF u >= PaletteCols THEN <<min_dist, best_u, best_v>>
    ELSE IF Closer(dist[v][u], min_dist)
         THEN ScanRow(dist, v, u + 1, dist[v][u], u, v)
         ELSE ScanRow(dist, v, u + 1, min_dist, best_u, best_v)

RECURSIVE ScanRows(_, _, _)
\* for v in range(6), from row v on; st is <<min_dist, best_u, best_v>>
ScanRows(dist, v, st) ==
    IF v >= PaletteRows THEN st
    ELSE ScanRows(dist, v + 1, ScanRow(dist, v, 0, st[1], st[2], st[3]))

\* min_dist = inf; best_u, best_v = 0, 0; the two loops; return best_u, best_v
ScanCells(dist) ==
    LET st == ScanRows(dist, 0, <<Inf, 0, 0>>)
    IN <<st[2], st[3]>>

Cells == (0..(PaletteCols - 1)) \X (0..(PaletteRows - 1))

PixelRgbUnswapped(pixel_colour_) == pixel_colour_

\* pixel_rgb = (pixel_colour[2], pixel_colour[1], pixel_colour[0])
PixelRgb(pixel_colour_) == <<pixel_colour_[3], pixel_colour_[2], pixel_colour_[1]>>

\* the distance the named quantizer computes between the pixel and one cell
Dist(name, pixel_rgb, texture_colour) ==
    CASE name = "perceptual" -> DistPerceptual(pixel_rgb, texture_colour)
      [] name = "rgb" -> DistRgb(pixel_rgb, texture_colour)
      [] name = "hsv" -> DistHsv(pixel_rgb, texture_colour)
      [] name = "lab" -> DistLab(pixel_rgb, texture_colour)
      [] name = "weighted" -> DistWeighted(pixel_rgb, texture_colour)
      [] name = "simple" -> DistSimple(pixel_rgb, texture_colour)
      [] name = "perceptual_hsv" -> DistPerceptualHsv(pixel_rgb, texture_colour)

\* the distance of every cell to the pixel, as the named quantizer computes it
DistTableOf(name, pixel_colour_, texture_resized) ==
    [v \in 0..(PaletteRows - 1) |-> [u \in 0..(PaletteCols - 1) |->
        Dist(name, PixelRgb(pixel_colour_), texture_resized[v][u])]]

find_closest_colour_perceptual(pixel_colour_, texture_resized) ==
    ScanCells(DistTableOf("perceptual", pixel_colour_, texture_resized))

find_closest_colour_rgb(pixel_colour_, texture_resized) ==
    ScanCells(DistTableOf("rgb", pixel_colour_, texture_resized))

find_closest_colour_hsv(pixel_colour_, texture_resized) ==
    ScanCells(DistTableOf("hsv", pixel_colour_, texture_resized))

find_closest_colour_lab(pixel_colour_, texture_resized) ==
    ScanCells(DistTableOf("lab", pixel_colour_, texture_resized))

find_closest_colour_weighted(pixel_colour_, texture_resized) ==
    ScanCells(DistTableOf("weighted", pixel_colour_, texture_resized))

find_closest_colour_simple(pixel_colour_, texture_resized) ==
    ScanCells(DistTableOf("simple", pixel_colour_, texture_resized))

find_closest_colour_perceptual_hsv(pixel_colour_, texture_resized) ==
    ScanCells(DistTableOf("perceptual_hsv", pixel_colour_, texture_resized))

\* ALGORITHMS.keys(), in the dictionary's order
get_available_algorithms ==
    <<"perceptual", "rgb", "hsv", "lab", "weighted", "simple", "perceptual_hsv">>

AlgorithmNames == {get_available_algorithms[k] : k \in 1..Len(get_available_algorithms)}

\* the None that ALGORITHMS.get returns (a quantizer is named by a string)
NoFunction == "None"

\* ALGORITHMS.get(algorithm_name): the function's name, None when not registered
get_algorithm_function(algorithm_name) ==
    IF algorithm_name \in AlgorithmNames THEN algorithm_name ELSE NoFunction

\* algorithm_func(pixel_colour, texture_resized)
CallAlgorithm(algorithm_func, pixel_colour_, texture_resized) ==
    CASE algorithm_func = "perceptual" ->
            find_closest_colour_perceptual(pixel_colour_, texture_resized)
      [] algorithm_func = "rgb" ->
            find_closest_colour_rgb(pixel_colour_, texture_resized)
      [] algorithm_func = "hsv" ->
            find_closest_colour_hsv(pixel_colour_, texture_resized)
      [] algorithm_func = "lab" ->
            find_closest_colour_lab(pixel_colour_, texture_resized)
      [] algorithm_func = "weighted" ->
            find_closest_colour_weighted(pixel_colour_, texture_resized)
      [] algorithm_func = "simple" ->
            find_closest_colour_simple(pixel_colour_, texture_resized)
      [] algorithm_func = "perceptual_hsv" ->
            find_closest_colour_perceptual_hsv(pixel_colour_, texture_resized)

(***************************************************************************)
(* The palette                                                             *)
(***************************************************************************)
\* texture_rgb = cv.cvtColor(texture, cv.COLOR_BGR2RGB);
\* texture_resized = cv.resize(texture_rgb, (7, 6)).  The model's textures are
\* 7 x 6 already, and resizing an image to its own size copies it.
TextureResized(texture_) ==
    [v \in 0..(PaletteRows - 1) |-> [u \in 0..(PaletteCols - 1) |->
        SwapRB(texture_[v][u])]]

\* a texture file's content, given cell by cell in R,G,B
TextureOf(rgb) ==
    [v \in 0..(PaletteRows - 1) |-> [u \in 0..(PaletteCols - 1) |-> SwapRB(rgb[u, v])]]

\* 42 different colours
RgbDistinct == [u \in 0..6, v \in 0..5 |-> <<40 * u, 50 * v, 7>>]

\* one colour in every cell
RgbUniform == [u \in 0..6, v \in 0..5 |-> <<128, 128, 128>>]

\* pure red in cell (0, 0), black elsewhere
RgbRedBlack ==
    [u \in 0..6, v \in 0..5 |-> IF u = 0 /\ v = 0 THEN <<255, 0, 0>> ELSE <<0, 0, 0>>]

\* four colours, each in several cells
RgbRepeated == [u \in 0..6, v \in 0..5 |-> <<200 * (u % 2), 200 * (v % 2), 50>>]

\* white in cell (0, 0), a near-black blue elsewhere
RgbWhiteDark ==
    [u \in 0..6, v \in 0..5 |->
        IF u = 0 /\ v = 0 THEN <<255, 255, 255>> ELSE <<0, 0, 10>>]

\* two reds with the same HSV value in cells (0, 0) and (1, 0), dark gray elsewhere
RgbNearRed ==
    [u \in 0..6, v \in 0..5 |->
        IF u = 0 /\ v = 0 THEN <<255, 1, 0>>
        ELSE IF u = 1 /\ v = 0 THEN <<255, 0, 0>>
        ELSE <<20, 20, 20>>]

\* around the pixel (200, 170, 170), whose saturation is 38: a near-gray of
\* saturation 15 in cell (0, 0) at distance^2 1100, a cell of saturation exactly 30
\* in cell (2, 0) at distance^2 1700, a colourful cell at distance^2 3200 elsewhere
RgbGrayTrap ==
    [u \in 0..6, v \in 0..5 |->
        IF u = 0 /\ v = 0 THEN <<170, 160, 160>>
        ELSE IF u = 2 /\ v = 0 THEN <<170, 150, 150>>
        ELSE <<160, 170, 130>>]

\* the texture files of the model
Textures ==
    { TextureOf(RgbDistinct), TextureOf(RgbUniform), TextureOf(RgbRedBlack),
      TextureOf(RgbRepeated), TextureOf(RgbWhiteDark), TextureOf(RgbNearRed),
      TextureOf(RgbGrayTrap) }

\* the texture files the whole-image runs use
CodecTextures ==
    { TextureOf(RgbDistinct), TextureOf(RgbRedBlack), TextureOf(RgbRepeated),
      TextureOf(RgbNearRed) }

\* the pixel colours of the model, B,G,R
PixelColours ==
    { <<0, 0, 0>>, <<255, 255, 255>>, <<0, 0, 255>>, <<0, 1, 255>>, <<10, 0, 0>>,
      <<7, 50, 40>>, <<7, 100, 80>>, <<128, 128, 128>>, <<50, 200, 0>>,
      <<150, 150, 170>>, <<60, 90, 130>>, <<250, 3, 9>>, <<170, 170, 200>>,
      <<225, 225, 255>> }

\* the conversions a run of the named algorithm is checked under
LabSeeds(a) == IF a \in {"lab", "perceptual", "all"} THEN 0..LabVariants ELSE {1}

(***************************************************************************)
(* Texts: formatting, joining, splitting and parsing                       *)
(***************************************************************************)
DigitChars == <<"0", "1", "2", "3", "4", "5", "6", "7", "8", "9">>

IsDigit(c) == \E d \in 1..10 : DigitChars[d] = c

DigitValue(c) == (CHOOSE d \in 1..10 : DigitChars[d] = c) - 1

\* np.clip(x, lo, hi) on integers
ClipInt(x, lo, hi) == IF x < lo THEN lo ELSE IF x > hi THEN hi ELSE x

ClipUnitAbsent(x) == x

\* np.clip(x, 0.01, 0.99) on a fraction x = <<numerator, denominator>>
ClipUnit(x) ==
    IF 100 * x[1] < x[2] THEN <<1, 100>>
    ELSE IF 100 * x[1] > 99 * x[2] THEN <<99, 100>>
    ELSE x

\* f"{x:.2f}" for a fraction 0 <= x < 10: the nearest hundredth, two decimals
Format2f(x) ==
    LET h == (200 * x[1] + x[2]) \div (2 * x[2])
    IN <<DigitChars[(h \div 100) + 1], ".",
         DigitChars[((h % 100) \div 10) + 1], DigitChars[(h % 10) + 1]>>

RECURSIVE Join(_, _)
\* sep.join(list)
Join(list, sep) ==
    IF list = <<>> THEN <<>>
    ELSE IF Len(list) = 1 THEN list[1]
    ELSE list[1] \o <<sep>> \o Join(Tail(list), sep)

RECURSIVE SplitFrom(_, _, _, _)
\* text.split(sep): the pieces between separators, from position k on, cur being
\* the piece under construction
SplitFrom(text, sep, k, cur) ==
    IF k > Len(text) THEN <<cur>>
    ELSE IF text[k] = sep THEN <<cur>> \o SplitFrom(text, sep, k + 1, <<>>)
    ELSE SplitFrom(text, sep, k + 1, Append(cur, text[k]))

Split(text, sep) == SplitFrom(text, sep, 1, <<>>)

RECURSIVE DigitsValue(_, _)
\* the number a run of digits denotes, acc being the value so far
DigitsValue(ds, acc) ==
    IF ds = <<>> THEN acc
    ELSE DigitsValue(Tail(ds), 10 * acc + DigitValue(ds[1]))

RECURSIVE Pow10(_)
Pow10(n) == IF n = 0 THEN 1 ELSE 10 * Pow10(n - 1)

AllDigits(ds) == \A k \in 1..Len(ds) : IsDigit(ds[k])

\* float(text) for the texts of the model: an optional "-", digits with an
\* optional "." among them, at least one digit.  [ok, num, den]: the value is
\* num/den; ok is FALSE where float raises ValueError.
ParseFloat(text) ==
    LET neg == text # <<>> /\ text[1] = "-"
        body == IF neg THEN Tail(text) ELSE text
        parts == Split(body, ".")
        ip == parts[1]
        fp == IF Len(parts) >= 2 THEN parts[2] ELSE <<>>
        ok == /\ Len(parts) <= 2
              /\ AllDigits(ip) /\ AllDigits(fp)
              /\ Len(ip) + Len(fp) >= 1
        mag == DigitsValue(ip \o fp, 0)
    IN IF ok THEN [ok |-> TRUE, num |-> IF neg THEN -mag ELSE mag, den |-> Pow10(Len(fp))]
       ELSE [ok |-> FALSE, num |-> 0, den |-> 1]

\* int(n/d), d > 0: Python's int truncates towards zero
Trunc(n, d) == IF n >= 0 THEN n \div d ELSE -((-n) \div d)

(***************************************************************************)
(* The encoder, serialize_image_to_uv                                      *)
(***************************************************************************)
\* the two np.clip lines on the index, the two on the coordinate, and the f-string
EncodeCell(best_u, best_v) ==
    LET cu == ClipInt(best_u, 0, 6)
        cv == ClipInt(best_v, 0, 5)
        u_norm == ClipUnit(<<cu, 6>>)
        v_norm == ClipUnit(<<5 - cv, 5>>)
    IN Format2f(u_norm) \o <<":">> \o Format2f(v_norm)

\* one pass of the inner loop's body: the pair appended for pixel (j, i)
EncodePixel(image, texture_resized, algorithm_func, i, j) ==
    LET uv == CallAlgorithm(algorithm_func, image[j][i], texture_resized)
    IN EncodeCell(uv[1], uv[2])

RECURSIVE EncodeColumnAscending(_, _, _, _, _, _)
EncodeColumnAscending(image, texture_resized, algorithm_func, i, j, list) ==
    IF j < 0 THEN list
    ELSE Append(EncodeColumnAscending(image, texture_resized, algorithm_func, i,
                                      j - 1, list),
                EncodePixel(image, texture_resized, algorithm_func, i, j))

RECURSIVE EncodeColumn(_, _, _, _, _, _)
\* for j in range(height-1, -1, -1), from row j on
EncodeColumn(image, texture_resized, algorithm_func, i, j, list) ==
    IF j < 0 THEN list
    ELSE EncodeColumn(image, texture_resized, algorithm_func, i, j - 1,
            Append(list, EncodePixel(image, texture_resized, algorithm_func, i, j)))

RECURSIVE EncodeColumns(_, _, _, _, _)
\* for i in range(width), from column i on
EncodeColumns(image, texture_resized, algorithm_func, i, list) ==
    IF i >= width THEN list
    ELSE EncodeColumns(image, texture_resized, algorithm_func, i + 1,
            EncodeColumn(image, texture_resized, algorithm_func, i, height - 1, list))

\* serialized_list after the loops
SerializedList(image, texture_, algorithm_func) ==
    EncodeColumns(image, TextureResized(texture_), algorithm_func, 0, <<>>)

\* the value serialize_image_to_uv returns (an image of the fixed shape is not resized)
serialize_image_to_uv(image, texture_, algorithm_func) ==
    Join(SerializedList(image, texture_, algorithm_func), ",")

(***************************************************************************)
(* The decoder, create_uv_preview_image                                    *)
(***************************************************************************)
\* np.zeros((height, width, 3), dtype=np.uint8)
Zeros == [j \in 0..(height - 1) |-> [i \in 0..(width - 1) |-> <<0, 0, 0>>]]

\* texture_u = int(x * 7), clamped to 0..6; x is [num, den]
TextureURounded(x) == Max2(0, Min2(6, Trunc(2 * 7 * x.num + x.den, 2 * x.den)))

TextureU(x) == Max2(0, Min2(6, Trunc(7 * x.num, x.den)))

\* texture_v = int((1.0 - y) * 6), clamped to 0..5
TextureV(y) == Max2(0, Min2(5, Trunc(6 * (y.den - y.num), y.den)))

\* the loop body for one pair: the B,G,R colour to store, or the exception raised
DecodePair(uv_pair, texture_resized) ==
    LET array2 == Split(uv_pair, ":")
        x == ParseFloat(array2[1])
        y == ParseFloat(array2[2])
    IN IF ~x.ok THEN [err |-> "ValueError", colour |-> <<0, 0, 0>>]
       ELSE IF Len(array2) < 2 THEN [err |-> "IndexError", colour |-> <<0, 0, 0>>]
       ELSE IF ~y.ok THEN [err |-> "ValueError", colour |-> <<0, 0, 0>>]
       ELSE LET texture_u == TextureU(x)
                texture_v == TextureV(y)
            IN [err |-> "none", colour |-> SwapRB(texture_resized[texture_v][texture_u])]

RECURSIVE DecodeColumn(_, _, _, _, _)
\* for j in range(height), from row j on; st is [num, img, err].  The loop ends at
\* the break (num >= len(uv_pairs)) and at an exception.
DecodeColumn(uv_pairs, texture_resized, i, j, st) ==
    IF j >= height \/ st.err # "none" \/ st.num >= Len(uv_pairs) THEN st
    ELSE LET d == DecodePair(uv_pairs[st.num + 1], texture_resized)
         IN IF d.err # "none" THEN [st EXCEPT !.err = d.err]
            ELSE DecodeColumn(uv_pairs, texture_resized, i, j + 1,
                    [st EXCEPT !.img[j][i] = d.colour, !.num = st.num + 1])

RECURSIVE DecodeColumns(_, _, _, _)
\* for i in range(width), from column i on
DecodeColumns(uv_pairs, texture_resized, i, st) ==
    IF i >= width \/ st.err # "none" THEN st
    ELSE DecodeColumns(uv_pairs, texture_resized, i + 1,
            DecodeColumn(uv_pairs, texture_resized, i, 0, st))

\* preview_img when the loops end: [num, img, err]
DecodeLoops(serialized, texture_) ==
    DecodeColumns(Split(serialized, ","), TextureResized(texture_), 0,
                  [num |-> 0, img |-> Zeros, err |-> "none"])

\* the preview left as the loops filled it, without cv.flip
NoFlip(img) == img

\* cv.flip(img, 0): the rows in reverse order
Flip(img) == [j \in 0..(height - 1) |-> img[height - 1 - j]]

\* what create_uv_preview_image does: [err, img], img the image written to
\* output_path and returned, None when an exception left the function first
create_uv_preview_image(serialized, texture_) ==
    LET st == DecodeLoops(serialized, texture_)
    IN IF st.err # "none" THEN [err |-> st.err, img |-> None]
       ELSE [err |-> "none", img |-> Flip(st.img)]

(***************************************************************************)
(* Inputs of the model                                                     *)
(***************************************************************************)
CellColours(texture_) ==
    { texture_[v][u] : v \in 0..(PaletteRows - 1), u \in 0..(PaletteCols - 1) }

\* the pixels handed to a quantizer: the colours above and every palette colour
PixelInputs == PixelColours \cup UNION { CellColours(t) : t \in Textures }

\* an image that is bg everywhere except for fg at row jj, column ii
MarkedImage(jj, ii, fg, bg) ==
    [j \in 0..(height - 1) |-> [i \in 0..(width - 1) |->
        IF j = jj /\ i = ii THEN fg ELSE bg]]

ColourSeq ==
    << <<0, 0, 255>>, <<7, 50, 40>>, <<255, 255, 255>>, <<50, 200, 0>>, <<0, 0, 0>>,
       <<150, 150, 170>>, <<0, 1, 255>>, <<7, 250, 240>>, <<60, 90, 130>>,
       <<10, 0, 0>>, <<128, 128, 128>> >>

\* an image whose neighbouring pixels all differ
GradientImage ==
    [j \in 0..(height - 1) |-> [i \in 0..(width - 1) |->
        ColourSeq[((j * width + i) % Len(ColourSeq)) + 1]]]

ColourPairs ==
    { << <<0, 0, 255>>, <<0, 0, 0>> >>,
      << <<7, 250, 240>>, <<0, 1, 255>> >> }

\* the source images of the model, all of the encoder's shape
Images ==
    { MarkedImage(jj, ii, cp[1], cp[2]) :
        jj \in 0..(height - 1), ii \in 0..(width - 1), cp \in ColourPairs }
    \cup { GradientImage }

(***************************************************************************)
(* One pixel through the encoder's loop body                               *)
(***************************************************************************)
InitPixel ==
    /\ pc = "p_start"
    /\ alg \in AlgorithmNames
    /\ lab_seed \in LabSeeds(alg)
    /\ texture \in Textures
    /\ pixel_colour \in PixelInputs
    /\ source_image = None
    /\ best = None
    /\ serialized_data = None
    /\ preview_img = None
    /\ reserialized = None
    /\ err = "none"
    /\ fs = {}
    /\ events = <<>>
    /\ todo = <<>>
    /\ image_arg = None
    /\ pixel_hsv = None
    /\ texture_hsv = None
    /\ h_dist = None

\* best_u, best_v = algorithm_func(pixel_colour, texture_resized)
Quantize ==
    /\ pc = "p_start"
    /\ best' = CallAlgorithm(get_algorithm_function(alg), pixel_colour,
                             TextureResized(texture))
    /\ pc' = "p_quantized"
    /\ UNCHANGED <<alg, lab_seed, source_image, texture, pixel_colour,
                   serialized_data, preview_img, reserialized, err, fs, events,
                   todo, image_arg>>
    /\ UNCHANGED hue_vars

\* the clips and the f-string: the pair appended for this pixel
EmitPair ==
    /\ pc = "p_quantized"
    /\ serialized_data' = EncodeCell(best[1], best[2])
    /\ pc' = "p_emitted"
    /\ UNCHANGED <<alg, lab_seed, source_image, texture, pixel_colour, best,
                   preview_img, reserialized, err, fs, events, todo, image_arg>>
    /\ UNCHANGED hue_vars

NextPixel == Quantize \/ EmitPair

SpecPixel == InitPixel /\ [][NextPixel]_vars

(***************************************************************************)
(* Properties of one pixel's quantization and encoding (SpecPixel)         *)
(***************************************************************************)
\* the position of cell <<u, v>> in the scan: v outer, u inner
ScanIndex(c) == c[2] * PaletteCols + c[1]

\* the distance the running algorithm computed for cell c
CellDist(c) ==
    DistTableOf(alg, pixel_colour, TextureResized(texture))[c[2]][c[1]]

\* the colour of cell c = <<u, v>> of the resized texture, R,G,B
CellRgb(c) == TextureResized(texture)[c[2]][c[1]]

Quantized == pc \in {"p_quantized", "p_emitted"}

\* C3: for every pixel, palette and metric the quantizer returns a cell of the
\* 7 x 6 grid whose distance is the minimum over all 42 cells, and among the
\* cells at that minimum the one scanned first (v outer, u inner); when all 42
\* cells are equidistant it returns (0, 0).
C3_EarliestMinimum ==
    Quantized =>
        LET d == DistTableOf(alg, pixel_colour, TextureResized(texture))
        IN /\ best \in Cells
           /\ \A c \in Cells :
                 /\ d[best[2]][best[1]] <= d[c[2]][c[1]]
                 /\ d[c[2]][c[1]] = d[best[2]][best[1]]
                       => ScanIndex(best) <= ScanIndex(c)
           /\ (\A c \in Cells : d[c[2]][c[1]] = d[0][0]) => best = <<0, 0>>

\* a tie at the minimum that is not settled by cell (0, 0)
C3_Witness ==
    /\ Quantized
    /\ best # <<0, 0>>
    /\ \E c \in Cells : c # best /\ CellDist(c) = CellDist(best)

\* the squared Euclidean distance of two colours, differences over the integers
TrueDistSq(a, b) ==
    (a[1] - b[1]) * (a[1] - b[1]) + (a[2] - b[2]) * (a[2] - b[2])
    + (a[3] - b[3]) * (a[3] - b[3])

\* C4: the rgb metric is the Euclidean distance of pixel and cell colour with the
\* channel differences taken over the integers, so the cell find_closest_colour_rgb
\* returns has minimal true Euclidean RGB distance to the pixel among the 42 cells.
C4_TrueEuclidean ==
    (Quantized /\ alg = "rgb") =>
        \A c \in Cells : TrueDistSq(SwapRB(pixel_colour), CellRgb(best))
                            <= TrueDistSq(SwapRB(pixel_colour), CellRgb(c))

\* C5 as stated: quantizing the colour of any cell (u, v) with rgb returns (u, v).
C5_ExactCell ==
    (Quantized /\ alg = "rgb") =>
        \A c \in Cells : CellRgb(c) = SwapRB(pixel_colour) => best = c

\* C5 as amended: quantizing the colour of a cell with rgb returns the
\* earliest-scanned cell that holds this colour, which is the cell itself when no
\* cell scanned before it has the same colour.
C5_EarliestCellOfColour ==
    (Quantized /\ alg = "rgb") =>
        \A c \in Cells : CellRgb(c) = SwapRB(pixel_colour) =>
            /\ CellRgb(best) = CellRgb(c)
            /\ ScanIndex(best) <= ScanIndex(c)
            /\ (\A e \in Cells : ScanIndex(e) < ScanIndex(c) => CellRgb(e) # CellRgb(c))
                  => best = c

\* a palette colour that is not in cell (0, 0), quantized against its palette
C5_Witness ==
    /\ Quantized /\ alg = "rgb"
    /\ best = <<6, 5>>
    /\ CellRgb(best) = SwapRB(pixel_colour)

UText ==
    << <<"0", ".", "0", "1">>, <<"0", ".", "1", "7">>, <<"0", ".", "3", "3">>,
       <<"0", ".", "5", "0">>, <<"0", ".", "6", "7">>, <<"0", ".", "8", "3">>,
       <<"0", ".", "9", "9">> >>

VText ==
    << <<"0", ".", "9", "9">>, <<"0", ".", "8", "0">>, <<"0", ".", "6", "0">>,
       <<"0", ".", "4", "0">>, <<"0", ".", "2", "0">>, <<"0", ".", "0", "1">> >>

\* the value of a number text lies in 0.01 .. 0.99
InUnitRange(text) ==
    LET x == ParseFloat(text)
    IN x.ok /\ x.den <= 100 * x.num /\ 100 * x.num <= 99 * x.den

\* C6: the pair emitted for cell (u, v) is the two-decimal text of
\* clamp(u/6, 0.01, 0.99), a colon, and that of clamp(1 - v/5, 0.01, 0.99):
\* 0.01 0.17 0.33 0.50 0.67 0.83 0.99 for u = 0..6 and 0.99 0.80 0.60 0.40 0.20
\* 0.01 for v = 0..5; no emitted value is below 0.01 or above 0.99.
C6_CellEncoding ==
    pc = "p_emitted" =>
        /\ serialized_data = UText[best[1] + 1] \o <<":">> \o VText[best[2] + 1]
        /\ \A t \in {Split(serialized_data, ":")[k] : k \in 1..2} : InUnitRange(t)

\* the bottom-right cell, both coordinates clamped
C6_Witness ==
    /\ pc = "p_emitted"
    /\ best = <<6, 5>>
    /\ serialized_data = <<"0", ".", "9", "9", ":", "0", ".", "0", "1">>

\* the HSV saturation of a colour given in R,G,B
Saturation(rgb) == RGB2HSV(rgb)[2]

\* the squared distance C11 states for cell c: the Euclidean distance of pixel and
\* cell colour, doubled exactly when the pixel's saturation is above 30 and the
\* cell's is below 30
PenalisedTrueDistSq(c) ==
    IF Saturation(SwapRB(pixel_colour)) > 30 /\ Saturation(CellRgb(c)) < 30
    THEN 4 * TrueDistSq(SwapRB(pixel_colour), CellRgb(c))
    ELSE TrueDistSq(SwapRB(pixel_colour), CellRgb(c))

\* C11: find_closest_colour_simple compares 2 x the RGB Euclidean distance when the
\* pixel's saturation is > 30 and the cell's is < 30 and the plain RGB Euclidean
\* distance otherwise, so the cell it returns is minimal under that distance.
C11_GrayPenalty ==
    (Quantized /\ alg = "simple") =>
        \A c \in Cells : PenalisedTrueDistSq(best) <= PenalisedTrueDistSq(c)

\* what does hold: the doubling condition, applied to the distance the rgb
\* quantizer computes (strict on both sides: a saturation of 30 never doubles)
C11_PenaltyOnComputedDistance ==
    (Quantized /\ alg = "simple") =>
        \A c \in Cells :
            CellDist(c) =
                (IF Saturation(SwapRB(pixel_colour)) > 30 /\ Saturation(CellRgb(c)) < 30
                 THEN 4 ELSE 1) * DistRgb(SwapRB(pixel_colour), CellRgb(c))

\* the doubling flips the ranking: simple passes over the near-gray cell that rgb
\* returns and returns a cell of saturation exactly 30, which is not doubled
C11_FlipReached ==
    /\ Quantized /\ alg = "simple"
    /\ Saturation(SwapRB(pixel_colour)) > 30
    /\ Saturation(CellRgb(best)) = 30
    /\ find_closest_colour_rgb(pixel_colour, TextureResized(texture)) = <<0, 0>>
    /\ best = <<2, 0>>
    /\ Saturation(CellRgb(<<0, 0>>)) < 30

\* a pixel of saturation exactly 30 against a gray cell: no doubling
C11_PixelAtThresholdReached ==
    /\ Quantized /\ alg = "simple"
    /\ Saturation(SwapRB(pixel_colour)) = 30
    /\ \E c \in Cells : Saturation(CellRgb(c)) < 30
                        /\ CellDist(c) = DistRgb(SwapRB(pixel_colour), CellRgb(c))
                        /\ CellDist(c) > 0

(***************************************************************************)
(* The hue term of the hsv and perceptual_hsv quantizers, on any two hues  *)
(***************************************************************************)
\* the hue values the term is taken of: 0 .. HueRange
HueRange == 180

\* the HSV triples of the hue computation: every hue, full saturation and value
HsvInputs == { <<h, 255, 255>> : h \in 0..HueRange }

InitHue ==
    /\ pc = "h_start"
    /\ alg \in {"hsv", "perceptual_hsv"}
    /\ pixel_hsv \in HsvInputs
    /\ texture_hsv \in HsvInputs
    /\ h_dist = None
    /\ lab_seed = 1
    /\ source_image = None
    /\ texture = None
    /\ pixel_colour = None
    /\ best = None
    /\ serialized_data = None
    /\ preview_img = None
    /\ reserialized = None
    /\ err = "none"
    /\ fs = {}
    /\ events = <<>>
    /\ todo = <<>>
    /\ image_arg = None

\* h_dist (hsv) / hue_diff (perceptual_hsv) =
\*   min(abs(float(pixel_hsv[0]) - float(texture_hsv[0])), 180 - abs(...)) / 180.0
HueTerm ==
    /\ pc = "h_start"
    /\ h_dist' = HueDiff(pixel_hsv[1], texture_hsv[1])
    /\ pc' = "h_done"
    /\ UNCHANGED <<alg, lab_seed, source_image, texture, pixel_colour, best,
                   serialized_data, preview_img, reserialized, err, fs, events,
                   todo, image_arg, pixel_hsv, texture_hsv>>

NextHue == HueTerm

SpecHue == InitHue /\ [][NextHue]_vars

\* C12: for all hues h1, h2 in 0..180 the hue term of hsv and perceptual_hsv is
\* min(|h1-h2|, 180-|h1-h2|)/180: it is the same for (h2, h1), it never exceeds
\* 90/180, and hues 2 and 178 give 4/180, not 176/180.  (h_dist is the term
\* times 180.)
C12_HueWraparound ==
    pc = "h_done" =>
        LET h1 == pixel_hsv[1]
            h2 == texture_hsv[1]
            d == IF h1 >= h2 THEN h1 - h2 ELSE h2 - h1
            e == IF h2 >= h1 THEN h2 - h1 ELSE h1 - h2
        IN /\ h_dist = (IF d <= 180 - d THEN d ELSE 180 - d)
           /\ h_dist = (IF e <= 180 - e THEN e ELSE 180 - e)
           /\ h_dist <= 90
           /\ h_dist >= 0
           /\ ({h1, h2} = {2, 178} => h_dist = 4 /\ h_dist # 176)

\* the hue term of hues 2 and 178 has been computed
C12_Witness ==
    /\ pc = "h_done"
    /\ pixel_hsv[1] = 2
    /\ texture_hsv[1] = 178
    /\ h_dist = 4

(***************************************************************************)
(* Encoding an image, decoding the stream, encoding the preview again      *)
(***************************************************************************)
InitCodec ==
    /\ pc = "c_start"
    /\ alg \in AlgorithmNames
    /\ lab_seed \in LabSeeds(alg)
    /\ texture \in CodecTextures
    /\ source_image \in Images
    /\ pixel_colour = None
    /\ best = None
    /\ serialized_data = None
    /\ preview_img = None
    /\ reserialized = None
    /\ err = "none"
    /\ fs = {}
    /\ events = <<>>
    /\ todo = <<>>
    /\ image_arg = None
    /\ pixel_hsv = None
    /\ texture_hsv = None
    /\ h_dist = None

ResizedTexturePath == <<"resized_texture.png">>

\* serialized_data = serialize_image_to_uv(source_image, texture, alg_func),
\* with the save_resized_texture(texture) it calls on the way
CallSerialize ==
    /\ pc = "c_start"
    /\ serialized_data' =
          serialize_image_to_uv(source_image, texture, get_algorithm_function(alg))
    /\ fs' = fs \cup {ResizedTexturePath}
    /\ events' = Append(events, <<"imwrite", ResizedTexturePath>>)
    /\ pc' = "c_encoded"
    /\ UNCHANGED <<alg, lab_seed, source_image, texture, pixel_colour, best,
                   preview_img, reserialized, err, todo, image_arg>>
    /\ UNCHANGED hue_vars

ExamplePreviewPath == <<"previews", "example.png">>

\* create_uv_preview_image(serialized_data, texture, preview_path)
CallCreatePreview ==
    /\ pc = "c_encoded"
    /\ LET r == create_uv_preview_image(serialized_data, texture)
       IN IF r.err = "none"
          THEN /\ preview_img' = r.img
               /\ fs' = fs \cup {ExamplePreviewPath}
               /\ events' = Append(events, <<"imwrite", ExamplePreviewPath>>)
               /\ err' = err
          ELSE /\ err' = r.err
               /\ UNCHANGED <<preview_img, fs, events>>
    /\ pc' = "c_decoded"
    /\ UNCHANGED <<alg, lab_seed, source_image, texture, pixel_colour, best,
                   serialized_data, reserialized, todo, image_arg>>
    /\ UNCHANGED hue_vars

\* serialize_image_to_uv(preview_img, texture, alg_func): the preview encoded again
CallSerializeAgain ==
    /\ pc = "c_decoded"
    /\ err = "none"
    /\ reserialized' =
          serialize_image_to_uv(preview_img, texture, get_algorithm_function(alg))
    /\ fs' = fs \cup {ResizedTexturePath}
    /\ events' = Append(events, <<"imwrite", ResizedTexturePath>>)
    /\ pc' = "c_reencoded"
    /\ UNCHANGED <<alg, lab_seed, source_image, texture, pixel_colour, best,
                   serialized_data, preview_img, err, todo, image_arg>>
    /\ UNCHANGED hue_vars

NextCodec == CallSerialize \/ CallCreatePreview \/ CallSerializeAgain

SpecCodec == InitCodec /\ [][NextCodec]_vars

\* C1: decoding the stream of an image and encoding the decoded preview with the
\* same palette and metric gives the identical stream, for each of the seven
\* metrics and also when the palette holds duplicate colours.
C1_RoundTrip == pc = "c_reencoded" => reserialized = serialized_data

\* a round trip through a palette with duplicate colours that changed the image
C1_Witness ==
    /\ pc = "c_reencoded"
    /\ reserialized = serialized_data
    /\ preview_img # source_image
    /\ \E c, e \in Cells : c # e /\ CellRgb(c) = CellRgb(e)
    /\ \E i \in 0..(width - 1), j \in 0..(height - 1) :
          preview_img[j][i] # preview_img[0][0]

\* C2: the stream holds width*height pairs, and the pair at position
\* i*height + (height-1-j) is the encoding of the pixel at row j, column i.
C2_EncoderOrder ==
    pc \in {"c_encoded", "c_decoded", "c_reencoded"} =>
        LET list == Split(serialized_data, ",")
        IN /\ Len(list) = width * height
           /\ \A i \in 0..(width - 1), j \in 0..(height - 1) :
                 list[i * height + (height - 1 - j) + 1] =
                    EncodePixel(source_image, TextureResized(texture),
                                get_algorithm_function(alg), i, j)

\* a stream whose pairs are not all the same
C2_Witness ==
    /\ pc = "c_encoded"
    /\ LET list == Split(serialized_data, ",")
       IN /\ Len(list) = width * height
          /\ list[1] # list[height]

\* the cell the quantizer selects for the source pixel at row j, column i
SelectedCell(i, j) ==
    CallAlgorithm(get_algorithm_function(alg), source_image[j][i],
                  TextureResized(texture))

\* the pair the encoder emitted for the source pixel at row j, column i
EmittedPair(i, j) == Split(serialized_data, ",")[i * height + (height - 1 - j) + 1]

\* C13: after encoding an image and decoding the full stream, flip included, the
\* preview pixel at row j, column i is the colour of the palette cell the quantizer
\* selected for the source pixel at row j, column i, and decoding each emitted
\* pair recovers the cell index (u, v) that was encoded.
C13_OrientationPreserved ==
    pc \in {"c_decoded", "c_reencoded"} =>
        /\ err = "none"
        /\ \A i \in 0..(width - 1), j \in 0..(height - 1) :
              LET cell == SelectedCell(i, j)
                  parts == Split(EmittedPair(i, j), ":")
              IN /\ preview_img[j][i] = SwapRB(CellRgb(cell))
                 /\ TextureU(ParseFloat(parts[1])) = cell[1]
                 /\ TextureV(ParseFloat(parts[2])) = cell[2]

\* a decoded preview whose top and bottom rows differ, equal to the quantized source
C13_Witness ==
    /\ pc = "c_decoded"
    /\ err = "none"
    /\ preview_img[0] # preview_img[height - 1]
    /\ \A i \in 0..(width - 1), j \in 0..(height - 1) :
          preview_img[j][i] = SwapRB(CellRgb(SelectedCell(i, j)))

(***************************************************************************)
(* The decoder on streams of any origin                                    *)
(***************************************************************************)
\* pair texts that parse: "0.01:0.99", "0.17:0.80", "0.99:0.01", "0.50:0.40",
\* "1:0", "-0.5:1.5"
GoodPairs ==
    << <<"0", ".", "0", "1", ":", "0", ".", "9", "9">>,
       <<"0", ".", "1", "7", ":", "0", ".", "8", "0">>,
       <<"0", ".", "9", "9", ":", "0", ".", "0", "1">>,
       <<"0", ".", "5", "0", ":", "0", ".", "4", "0">>,
       <<"1", ":", "0">>,
       <<"-", "0", ".", "5", ":", "1", ".", "5">> >>

\* pair texts that do not: "x", "", "0.5", "0.5:", "0.5:x1"
BadPairs ==
    { <<"x">>, <<>>, <<"0", ".", "5">>, <<"0", ".", "5", ":">>,
      <<"0", ".", "5", ":", "x", "1">> }

\* n pairs taken in turn from GoodPairs, the one at position p replaced by bad
\* (p = 0: none replaced)
PairList(n, p, bad) ==
    [k \in 1..n |-> IF k = p THEN bad ELSE GoodPairs[((k - 1) % Len(GoodPairs)) + 1]]

Streams ==
    { Join(PairList(n, p, bad), ",") :
        n \in 0..(width * height + MaxExtra),
        p \in 0..(width * height + MaxExtra),
        bad \in BadPairs }

InitDecode ==
    /\ pc = "d_start"
    /\ serialized_data \in Streams
    /\ texture \in {TextureOf(RgbDistinct), TextureOf(RgbRepeated)}
    /\ alg = NoFunction
    /\ lab_seed = 1
    /\ source_image = None
    /\ pixel_colour = None
    /\ best = None
    /\ preview_img = None
    /\ reserialized = None
    /\ err = "none"
    /\ fs = {}
    /\ events = <<>>
    /\ todo = <<>>
    /\ image_arg = None
    /\ pixel_hsv = None
    /\ texture_hsv = None
    /\ h_dist = None

\* create_uv_preview_image(serialized_data, texture, preview_path) on a given stream
DecodeStream ==
    /\ pc = "d_start"
    /\ LET r == create_uv_preview_image(serialized_data, texture)
       IN IF r.err = "none"
          THEN /\ preview_img' = r.img
               /\ fs' = fs \cup {ExamplePreviewPath}
               /\ events' = Append(events, <<"imwrite", ExamplePreviewPath>>)
               /\ err' = err
          ELSE /\ err' = r.err
               /\ UNCHANGED <<preview_img, fs, events>>
    /\ pc' = "d_done"
    /\ UNCHANGED <<alg, lab_seed, source_image, texture, pixel_colour, best,
                   serialized_data, reserialized, todo, image_arg>>
    /\ UNCHANGED hue_vars

NextDecode == DecodeStream

SpecDecode == InitDecode /\ [][NextDecode]_vars

\* the pairs a stream holds: none for the empty stream, else its comma-separated pieces
PairsOf(stream) == IF stream = <<>> THEN <<>> ELSE Split(stream, ",")

\* a pair that parses as two floats
WellFormed(pair) ==
    LET parts == Split(pair, ":")
    IN Len(parts) >= 2 /\ ParseFloat(parts[1]).ok /\ ParseFloat(parts[2]).ok

\* the colour the decoder looks up for a well-formed pair, B,G,R
LookedUp(pair) ==
    LET parts == Split(pair, ":")
    IN SwapRB(TextureResized(texture)
                [TextureV(ParseFloat(parts[2]))][TextureU(ParseFloat(parts[1]))])

\* the grid with the first n positions (column i outer, row j inner, both
\* ascending) filled from the pairs and the others black
FilledPrefix(pairs, n) ==
    [j \in 0..(height - 1) |-> [i \in 0..(width - 1) |->
        IF i * height + j < n THEN LookedUp(pairs[i * height + j + 1])
        ELSE <<0, 0, 0>>]]

\* C8: when any pair of the stream, at any position and whatever the stream's
\* length, fails to parse as two floats, the decode fails with an error and no
\* preview image is written or returned.
C8_MalformedFails ==
    (pc = "d_done"
       /\ \E k \in 1..Len(PairsOf(serialized_data)) :
             ~WellFormed(PairsOf(serialized_data)[k]))
    => /\ err # "none"
       /\ preview_img = None
       /\ fs = {}

\* C9: a stream of n well-formed pairs, 0 <= n < width*height (the empty stream
\* included), decodes without error: the first n grid positions in traversal
\* order hold the looked-up colours, the others stay black, and the grid is
\* then flipped vertically.
C9_TruncatedDecodes ==
    LET pairs == PairsOf(serialized_data)
    IN (pc = "d_done"
          /\ Len(pairs) < width * height
          /\ \A k \in 1..Len(pairs) : WellFormed(pairs[k]))
       => /\ err = "none"
          /\ preview_img = Flip(FilledPrefix(pairs, Len(pairs)))

\* what the decoder does do: C9 for the streams that hold at least one pair
C9_NonEmptyTruncatedDecodes ==
    LET pairs == PairsOf(serialized_data)
    IN (pc = "d_done"
          /\ 1 <= Len(pairs) /\ Len(pairs) < width * height
          /\ \A k \in 1..Len(pairs) : WellFormed(pairs[k]))
       => /\ err = "none"
          /\ preview_img = Flip(FilledPrefix(pairs, Len(pairs)))

\* what the decoder does do: C8 for a malformed pair among the first width*height
C8_MalformedInGridFails ==
    (pc = "d_done"
       /\ \E k \in 1..Len(PairsOf(serialized_data)) :
             k <= width * height /\ ~WellFormed(PairsOf(serialized_data)[k]))
    => /\ err # "none"
       /\ preview_img = None
       /\ fs = {}

(***************************************************************************)
(* main and process_image_with_algorithm                                   *)
(*                                                                         *)
(* A path is a sequence of name pieces.  fs holds the paths that exist,    *)
(* directories included; what a file holds is fixed by its path.           *)
(***************************************************************************)
TexturePath == <<"mage-arena-texture.png">>

OutputPath == <<"registry_command.ps1">>

PreviewsDir == <<"previews">>

ImageFiles ==
    { <<"images", "flag.png">>, <<"images", "mark.png">>, <<"images", "broken.png">> }

\* previews/<output_prefix>.png for rgb, previews/<output_prefix>_<name>.png otherwise
PreviewPath(algorithm_name) ==
    IF algorithm_name = "rgb" THEN <<"previews", "image_preview", ".png">>
    ELSE <<"previews", "image_preview", "_", algorithm_name, ".png">>

\* file.endswith('.png') for a file of the previews folder
InPreviewsPng(f) ==
    Len(f) >= 2 /\ f[1] = "previews" /\ f[Len(f)] \in {".png", "old.png"}

\* cv.imread(path): the image the file holds, None when the file is missing or
\* is no image
Imread(path) ==
    IF path \notin fs THEN None
    ELSE IF path = <<"images", "flag.png">> THEN GradientImage
    ELSE IF path = <<"images", "mark.png">>
         THEN MarkedImage(0, 0, <<0, 0, 255>>, <<0, 0, 0>>)
    ELSE IF path = TexturePath THEN TextureOf(RgbRepeated)
    ELSE None

\* normalize_image_path: a path with a separator is kept, a bare name is looked
\* up in images/
normalize_image_path(image_path) ==
    IF Len(image_path) > 1 THEN image_path ELSE <<"images">> \o image_path

\* the algorithm_name of the running process_image_with_algorithm call: args.alg,
\* or under "all" the loop's alg_name and, after the loop, "rgb"
CurrentAlgorithm ==
    IF alg = "all" THEN (IF todo # <<>> THEN Head(todo) ELSE "rgb") ELSE alg

InLoop == alg = "all" /\ todo # <<>>

Init ==
    /\ pc = "m_start"
    /\ alg \in AlgorithmNames \cup {"all", "bogus"}
    /\ lab_seed \in LabSeeds(alg)
    /\ image_arg \in { None, <<"flag.png">>, <<"mark.png">>, <<"broken.png">>,
                       <<"missing.png">>, <<"images", "flag.png">> }
    /\ \E base \in { ImageFiles, ImageFiles \cup {TexturePath} },
          prev \in { {}, {PreviewsDir},
                     {PreviewsDir, <<"previews", "old.png">>,
                      <<"previews", "notes.txt">>},
                     {PreviewsDir, PreviewPath("hsv"), ResizedTexturePath} } :
          fs = base \cup prev
    /\ source_image = None
    /\ texture = None
    /\ pixel_colour = None
    /\ best = None
    /\ serialized_data = None
    /\ preview_img = None
    /\ reserialized = None
    /\ err = "none"
    /\ events = <<>>
    /\ todo = <<>>
    /\ pixel_hsv = None
    /\ texture_hsv = None
    /\ h_dist = None

\* main up to the try: no path given, or the normalized path does not exist
MainArgs ==
    /\ pc = "m_start"
    /\ IF image_arg = None
       THEN /\ err' = "No image path provided"
            /\ pc' = "m_exit"
            /\ UNCHANGED image_arg
       ELSE /\ image_arg' = normalize_image_path(image_arg)
            /\ IF normalize_image_path(image_arg) \notin fs
               THEN err' = "Image file not found" /\ pc' = "m_exit"
               ELSE err' = err /\ pc' = "m_clear"
    /\ UNCHANGED <<alg, lab_seed, source_image, texture, pixel_colour, best,
                   serialized_data, preview_img, reserialized, fs, events, todo>>
    /\ UNCHANGED hue_vars

\* clear_previews_folder(), then the branch on args.alg
ClearPreviews ==
    /\ pc = "m_clear"
    /\ LET removed == IF PreviewsDir \in fs THEN {f \in fs : InPreviewsPng(f)} ELSE {}
       IN /\ fs' = fs \ removed
          /\ events' = IF removed = {} THEN events
                       ELSE Append(events, <<"remove", removed>>)
    /\ todo' = IF alg = "all" THEN get_available_algorithms ELSE <<>>
    /\ pc' = "m_load"
    /\ UNCHANGED <<alg, lab_seed, source_image, texture, pixel_colour, best,
                   serialized_data, preview_img, reserialized, err, image_arg>>
    /\ UNCHANGED hue_vars

\* process_image_with_algorithm: the two cv.imread calls
LoadImages ==
    /\ pc = "m_load"
    /\ source_image' = Imread(image_arg)
    /\ texture' = Imread(TexturePath)
    /\ events' = events \o << <<"imread", image_arg>>, <<"imread", TexturePath>> >>
    /\ pc' = "m_check"
    /\ UNCHANGED <<alg, lab_seed, pixel_colour, best, serialized_data, preview_img,
                   reserialized, err, fs, todo, image_arg>>
    /\ UNCHANGED hue_vars

\* the ValueError the checks of process_image_with_algorithm raise, "none" when
\* they pass
CheckError ==
    IF source_image = None THEN "Could not load source image"
    ELSE IF texture = None THEN "Could not load texture image"
    ELSE IF get_algorithm_function(CurrentAlgorithm) = NoFunction
         THEN "Unknown algorithm"
    ELSE "none"

\* the three checks; an exception is caught by the loop's except under "all"
\* (the loop goes on) and by main's except otherwise (main ends)
CheckInputs ==
    /\ pc = "m_check"
    /\ IF CheckError = "none"
       THEN /\ pc' = "m_serialize"
            /\ UNCHANGED <<err, todo>>
       ELSE /\ err' = CheckError
            /\ IF InLoop
               THEN todo' = Tail(todo) /\ pc' = "m_load"
               ELSE todo' = todo /\ pc' = "m_exit"
    /\ UNCHANGED <<alg, lab_seed, source_image, texture, pixel_colour, best,
                   serialized_data, preview_img, reserialized, fs, events, image_arg>>
    /\ UNCHANGED hue_vars

\* serialized_data = serialize_image_to_uv(source_image, texture, algorithm_func),
\* with the save_resized_texture(texture) it calls on the way
ProcSerialize ==
    /\ pc = "m_serialize"
    /\ serialized_data' =
          serialize_image_to_uv(source_image, texture,
                                get_algorithm_function(CurrentAlgorithm))
    /\ fs' = fs \cup {ResizedTexturePath}
    /\ events' = Append(events, <<"imwrite", ResizedTexturePath>>)
    /\ pc' = "m_preview"
    /\ UNCHANGED <<alg, lab_seed, source_image, texture, pixel_colour, best,
                   preview_img, reserialized, err, todo, image_arg>>
    /\ UNCHANGED hue_vars

\* os.makedirs('previews', exist_ok=True) and create_uv_preview_image
ProcPreview ==
    /\ pc = "m_preview"
    /\ LET r == create_uv_preview_image(serialized_data, texture)
           output_path == PreviewPath(CurrentAlgorithm)
       IN IF r.err = "none"
          THEN /\ preview_img' = r.img
               /\ fs' = fs \cup {PreviewsDir, output_path}
               /\ events' = Append(events, <<"imwrite", output_path>>)
               /\ pc' = "m_return"
               /\ UNCHANGED <<err, todo>>
          ELSE /\ err' = r.err
               /\ fs' = fs \cup {PreviewsDir}
               /\ IF InLoop
                  THEN todo' = Tail(todo) /\ pc' = "m_load"
                  ELSE todo' = todo /\ pc' = "m_exit"
               /\ UNCHANGED <<preview_img, events>>
    /\ UNCHANGED <<alg, lab_seed, source_image, texture, pixel_colour, best,
                   serialized_data, reserialized, image_arg>>
    /\ UNCHANGED hue_vars

\* the return of process_image_with_algorithm: back in the loop under "all",
\* else the registry command is written to args.output
ProcReturn ==
    /\ pc = "m_return"
    /\ IF InLoop
       THEN /\ todo' = Tail(todo)
            /\ pc' = "m_load"
            /\ UNCHANGED <<fs, events>>
       ELSE /\ fs' = fs \cup {OutputPath}
            /\ events' = Append(events, <<"write", OutputPath>>)
            /\ pc' = "m_exit"
            /\ UNCHANGED todo
    /\ UNCHANGED <<alg, lab_seed, source_image, texture, pixel_colour, best,
                   serialized_data, preview_img, reserialized, err, image_arg>>
    /\ UNCHANGED hue_vars

Next ==
    \/ MainArgs
    \/ ClearPreviews
    \/ LoadImages
    \/ CheckInputs
    \/ ProcSerialize
    \/ ProcPreview
    \/ ProcReturn

Spec == Init /\ [][Next]_vars

\* C7: encoding has no side effect beyond producing the stream: the step that
\* runs serialize_image_to_uv leaves the file system unchanged and performs no
\* externally visible effect; the palette preview is never written by it.
C7_EncoderFrame ==
    [][(pc = "m_serialize" /\ pc' = "m_preview") => (fs' = fs /\ events' = events)]_vars

\* C10: when the algorithm name is not registered, the error is reported before
\* any image is loaded, before any preview file is removed and before any
\* stream, preview image or output file is produced.
C10_UnknownAlgorithmFirst ==
    err = "Unknown algorithm" =>
        /\ events = <<>>
        /\ source_image = None /\ texture = None
        /\ serialized_data = None /\ preview_img = None
        /\ OutputPath \notin fs

\* what main does do: after an unknown algorithm name no stream, preview image
\* or output file is produced
C10_NothingProducedAfterUnknown ==
    (alg = "bogus") =>
        /\ serialized_data = None /\ preview_img = None
        /\ OutputPath \notin fs
        /\ \A k \in 1..Len(events) : events[k][1] \in {"remove", "imread"}

====
